---------------------------- MODULE Spec2Model ----------------------------
(***************************************************************************)
(* Model of check_logs.py: the user-format line parser, the reference-     *)
(* format line parser and the lock-step comparison loop of main.           *)
(*                                                                         *)
(* A Python str is a sequence of one-character strings; a dict is a        *)
(* function whose domain is the set of its keys; a line of a file is the   *)
(* str linecache.getline returns for it (with its trailing newline).       *)
(* sys.exit and an uncaught exception are outcomes of the parsers: each    *)
(* parser returns a record that says whether the process went on, what it  *)
(* printed to standard output and which exception (if any) ended it.       *)
(***************************************************************************)
EXTENDS Integers, Sequences, FiniteSets, TLC

VARIABLES
    argv,                     \* sys.argv
    userFile,                 \* the user log: a sequence of lines
    refFile,                  \* the reference log: a sequence of lines
    pc,                       \* where the process is: "start" | "loop" | "done"
    current_user_line_index,
    current_ref_line_index,
    user_start,               \* the user cursor on entry to the loop
    ref_start,                \* the reference cursor on entry to the loop
    iterations,               \* completed iterations of the while loop
    status,                   \* "RUNNING" | "TERMINATED"
    exit_code,                \* <<>> while running, then <<the exit status>>
    stdout,                   \* the diagnostics printed, in order
    stderr,                   \* the uncaught exception's traceback, if any
    ret                       \* what the last parser call returned or did

vars == <<argv, userFile, refFile, pc, current_user_line_index,
          current_ref_line_index, user_start, ref_start, iterations, status,
          exit_code, stdout, stderr, ret>>

\* F(v) with v evaluated once: the statement name = v, then what follows it.
Bind(v, F(_)) == CHOOSE result \in {F(name) : name \in {v}} : TRUE

(***************************************************************************)
(* Python str operations used by the program.                              *)
(***************************************************************************)

\* The characters str.strip() and str.split() treat as whitespace.
Whitespace == {" ", "\t", "\n", "\r"}

LowerLetters == <<"a","b","c","d","e","f","g","h","i","j","k","l","m",
                  "n","o","p","q","r","s","t","u","v","w","x","y","z">>

UpperLetters == <<"A","B","C","D","E","F","G","H","I","J","K","L","M",
                  "N","O","P","Q","R","S","T","U","V","W","X","Y","Z">>

\* The upper-case letter of each lower-case letter.
UpperOf ==
    [c \in {LowerLetters[i] : i \in 1..Len(LowerLetters)} |->
        UpperLetters[CHOOSE i \in 1..Len(LowerLetters) : LowerLetters[i] = c]]

\* str.upper() on one character.
UpperChar(c) == IF c \in DOMAIN UpperOf THEN UpperOf[c] ELSE c

\* str.upper()
Upper(s) == [i \in 1..Len(s) |-> UpperChar(s[i])]

\* str.startswith(p)
StartsWith(s, p) == Len(s) >= Len(p) /\ SubSeq(s, 1, Len(p)) = p

\* str.endswith(p)
EndsWith(s, p) == Len(s) >= Len(p) /\ SubSeq(s, Len(s) - Len(p) + 1, Len(s)) = p

\* The positions 1..Len(s) of s, in order.
Positions(s) == [i \in 1..Len(s) |-> i]

\* str.strip(): from the first to the last non-whitespace character.
Strip(s) ==
    Bind(SelectSeq(Positions(s), LAMBDA i : s[i] \notin Whitespace),
         LAMBDA inked :
             IF inked = <<>> THEN <<>> ELSE SubSeq(s, inked[1], inked[Len(inked)]))

\* str.split() without arguments: the maximal runs of non-whitespace, in
\* the order they start in.
Split(s) ==
    Bind(SelectSeq(Positions(s), LAMBDA i :
             s[i] \notin Whitespace /\ (i = 1 \/ s[i - 1] \in Whitespace)),
         LAMBDA starts :
    Bind(SelectSeq(Positions(s), LAMBDA i :
             s[i] \notin Whitespace /\ (i = Len(s) \/ s[i + 1] \in Whitespace)),
         LAMBDA ends :
             [k \in 1..Len(starts) |-> SubSeq(s, starts[k], ends[k])]))

\* The index of the first ':' of s (s holds one wherever the program splits).
FirstColon(s) == CHOOSE i \in 1..Len(s) : s[i] = ":" /\ \A j \in 1..(i - 1) : s[j] # ":"

\* str.split(':', 1) of a str that holds a colon: <<before, after>>.
SplitColon(s) ==
    <<SubSeq(s, 1, FirstColon(s) - 1), SubSeq(s, FirstColon(s) + 1, Len(s))>>

\* A getline that wraps around: past the end it reads from the top again.
getline_Wrap(file, lineno) ==
    IF file = <<>> \/ lineno < 1 THEN <<>>
    ELSE file[((lineno - 1) % Len(file)) + 1]

\* linecache.getline: the line, or the empty str when lineno is out of range.
getline(file, lineno) ==
    IF 1 <= lineno /\ lineno <= Len(file) THEN file[lineno] ELSE <<>>

(***************************************************************************)
(* dict                                                                    *)
(***************************************************************************)

EmptyDict == [k \in {} |-> <<>>]

\* regs[key] = val
DictSet(regs, key, val) == (key :> val) @@ regs

(***************************************************************************)
(* parse_user_line                                                         *)
(***************************************************************************)

UserPrefixes ==
    << <<"A",":">>, <<"F",":">>, <<"B",":">>, <<"C",":">>, <<"D",":">>,
       <<"E",":">>, <<"H",":">>, <<"L",":">>, <<"P","C",":">>,
       <<"P","P","U",":">>,
       <<"T","O","T","A","L","_","C","Y","_","D","O","T","S",":">>,
       <<"S","C","A","N","L","I","N","E",":">> >>

UserRequired ==
    << <<"A">>, <<"F">>, <<"B">>, <<"C">>, <<"D">>, <<"E">>, <<"H">>, <<"L">>,
       <<"P","C">>, <<"P","P","U">>,
       <<"T","O","T","A","L","_","C","Y","_","D","O","T","S">>,
       <<"S","C","A","N","L","I","N","E">> >>

\* The inner for loop: the first prefix the part starts with claims it.
UserPart(regs, part) ==
    IF \E i \in 1..Len(UserPrefixes) : StartsWith(part, UserPrefixes[i])
    THEN DictSet(regs, SplitColon(part)[1], SplitColon(part)[2])
    ELSE regs

\* An outer loop that a part no prefix claims breaks out of.
RECURSIVE UserParts_StopAtUnknown(_, _)
UserParts_StopAtUnknown(parts, n) ==
    IF n = 0 THEN EmptyDict
    ELSE IF \E k \in 1..(n - 1) :
                \A i \in 1..Len(UserPrefixes) : ~StartsWith(parts[k], UserPrefixes[i])
    THEN UserParts_StopAtUnknown(parts, n - 1)
    ELSE UserPart(UserParts_StopAtUnknown(parts, n - 1), parts[n])

\* The outer for loop: regs after the first n parts of the line.
RECURSIVE UserParts(_, _)
UserParts(parts, n) ==
    IF n = 0 THEN EmptyDict
    ELSE Bind(UserParts(parts, n - 1), LAMBDA regs :
         Bind(parts[n], LAMBDA part : UserPart(regs, part)))

\* A missing list that stops at the first missing register.
Missing_First(required, regs) ==
    IF SelectSeq(required, LAMBDA r : r \notin DOMAIN regs) = <<>> THEN <<>>
    ELSE <<Head(SelectSeq(required, LAMBDA r : r \notin DOMAIN regs))>>

Missing(required, regs) == SelectSeq(required, LAMBDA r : r \notin DOMAIN regs)

\* What a parser call does: it returns (exited = FALSE) or ends the process,
\* by sys.exit(code) after printing out, or by the uncaught exception raised.
Returned(regs, line, lineno) ==
    [exited |-> FALSE, code |-> 0, raised |-> "", out |-> <<>>,
     regs |-> regs, line |-> line, lineno |-> lineno]

\* print(...) of each element of out, then sys.exit(0)
Exited_Zero(out) ==
    [exited |-> TRUE, code |-> 0, raised |-> "", out |-> out,
     regs |-> EmptyDict, line |-> <<>>, lineno |-> 0]

\* print(...) of each element of out, then sys.exit(1)
Exited(out) ==
    [exited |-> TRUE, code |-> 1, raised |-> "", out |-> out,
     regs |-> EmptyDict, line |-> <<>>, lineno |-> 0]

\* An uncaught exception: a traceback on standard error, exit status 1.
Raised(exception) ==
    [exited |-> TRUE, code |-> 1, raised |-> exception, out |-> <<>>,
     regs |-> EmptyDict, line |-> <<>>, lineno |-> 0]

parse_user_line(user_file, converted_line_index) ==
    Bind(getline(user_file, converted_line_index), LAMBDA read :
    Bind(Strip(read), LAMBDA line :
    Bind(Split(line), LAMBDA parts :
    Bind(UserParts(parts, Len(parts)), LAMBDA regs :
    Bind(Missing(UserRequired, regs), LAMBDA missing :
        IF missing # <<>>
        THEN Exited(<<[msg |-> "user_missing",
                       lineno |-> converted_line_index,
                       missing |-> missing]>>)
        ELSE Returned(regs, line, converted_line_index))))))

(***************************************************************************)
(* parse_ref_line                                                          *)
(***************************************************************************)

\* a | b on non-negative integers
BitOr[a \in Nat, b \in Nat] ==
    IF a = 0 THEN b
    ELSE IF b = 0 THEN a
    ELSE 2 * BitOr[a \div 2, b \div 2] + (IF a % 2 = 1 \/ b % 2 = 1 THEN 1 ELSE 0)

HexDigits == <<"0","1","2","3","4","5","6","7","8","9","A","B","C","D","E","F">>

\* format(n, "X")
HexStr[n \in Nat] ==
    IF n < 16 THEN <<HexDigits[n + 1]>>
    ELSE HexStr[n \div 16] \o <<HexDigits[(n % 16) + 1]>>

\* f"{n:02X}": upper-case hex, zero-padded to at least two digits
Format02X(n) == IF Len(HexStr[n]) < 2 THEN <<"0">> \o HexStr[n] ELSE HexStr[n]

\* if f_str[i] != '-': f_val |= bit
FlagBit(f_val, f_str, i, bit) == IF f_str[i] # "-" THEN BitOr[f_val, bit] ELSE f_val

\* A flag byte with the bits of positions 1 and 2 exchanged.
FlagByte_Swapped(f_str) ==
    Bind(FlagBit(0, f_str, 1, 128), LAMBDA f1 :
    Bind(FlagBit(f1, f_str, 2, 32), LAMBDA f2 :
    Bind(FlagBit(f2, f_str, 3, 64), LAMBDA f3 :
         FlagBit(f3, f_str, 4, 16))))

\* f_val = 0, then the four tests on f_str[0..3], each or-ing one bit in.
FlagByte(f_str) ==
    Bind(FlagBit(0, f_str, 1, 128), LAMBDA f1 :
    Bind(FlagBit(f1, f_str, 2, 64), LAMBDA f2 :
    Bind(FlagBit(f2, f_str, 3, 32), LAMBDA f3 :
         FlagBit(f3, f_str, 4, 16))))

RefRequired ==
    << <<"A">>, <<"F">>, <<"B">>, <<"C">>, <<"D">>, <<"E">>, <<"H">>, <<"L">>,
       <<"P","C">> >>

\* A register pair token XY:<4 digits>: X = first two, Y = last two.
RefPair(st, part, hi, lo, msg, lineno) ==
    Bind(SplitColon(part)[2], LAMBDA v :
        IF Len(v) # 4
        THEN Exited(<<[msg |-> msg, lineno |-> lineno, value |-> v]>>)
        ELSE [st EXCEPT !.regs = DictSet(DictSet(st.regs, hi, SubSeq(v, 1, 2)),
                                         lo, SubSeq(v, 3, Len(v)))])

\* An F token whose length check lets longer strings through.
RefFlags_Short(st, part, lineno) ==
    Bind(SplitColon(part)[2], LAMBDA f_str :
        IF Len(f_str) < 4
        THEN Exited(<<[msg |-> "ref_bad_F", lineno |-> lineno, value |-> f_str]>>)
        ELSE Bind(FlagByte(f_str), LAMBDA f_val :
                 [st EXCEPT !.regs = DictSet(st.regs, <<"F">>, Format02X(f_val))]))

\* An F token: the length check, then the flag byte as two hex digits.
RefFlags(st, part, lineno) ==
    Bind(SplitColon(part)[2], LAMBDA f_str :
        IF Len(f_str) # 4
        THEN Exited(<<[msg |-> "ref_bad_F", lineno |-> lineno, value |-> f_str]>>)
        ELSE Bind(FlagByte(f_str), LAMBDA f_val :
                 [st EXCEPT !.regs = DictSet(st.regs, <<"F">>, Format02X(f_val))]))

\* The body of the for loop: the if/elif chain on one part. st is the
\* parser's state so far; nothing runs after sys.exit or an exception.
RefPart(st, part, lineno) ==
    IF st.exited THEN st
    ELSE IF StartsWith(part, <<"A",":">>)
    THEN [st EXCEPT !.regs = DictSet(st.regs, <<"A">>, SplitColon(part)[2])]
    ELSE IF EndsWith(part, <<")">>)
    THEN [st EXCEPT !.regs = DictSet(st.regs,
              <<"T","O","T","A","L","_","C","Y","_","D","O","T","S">>,
              SubSeq(part, 1, Len(part) - 1))]
    ELSE IF StartsWith(part, <<"p","p","u",":">>)
    THEN [st EXCEPT !.regs = DictSet(st.regs, <<"P","P","U">>,
              SubSeq(SplitColon(part)[2], 2, Len(SplitColon(part)[2])))]
    ELSE IF StartsWith(part, <<"F",":">>)
    THEN RefFlags(st, part, lineno)
    ELSE IF StartsWith(part, <<"B","C",":">>)
    THEN RefPair(st, part, <<"B">>, <<"C">>, "ref_bad_BC", lineno)
    ELSE IF StartsWith(part, <<"D","E",":">>)
    THEN RefPair(st, part, <<"D">>, <<"E">>, "ref_bad_DE", lineno)
    ELSE IF StartsWith(part, <<"H","L",":">>)
    THEN RefPair(st, part, <<"H">>, <<"L">>, "ref_bad_HL", lineno)
    ELSE IF StartsWith(part, <<"P","C",":">>)
    THEN Bind(SplitColon(part)[2], LAMBDA pc_part :
             IF Split(pc_part) = <<>>
             THEN Raised("IndexError")
             ELSE [st EXCEPT !.regs =
                       DictSet(st.regs, <<"P","C">>, Split(pc_part)[1])])
    ELSE st

\* The state of parse_ref_line after the first n parts of the line.
RECURSIVE RefParts(_, _, _, _)
RefParts(parts, n, line, lineno) ==
    IF n = 0 THEN Returned(EmptyDict, line, lineno)
    ELSE Bind(RefParts(parts, n - 1, line, lineno), LAMBDA st :
         Bind(parts[n], LAMBDA part : RefPart(st, part, lineno)))

parse_ref_line(ref_file, converted_line_index) ==
    Bind(getline(ref_file, converted_line_index), LAMBDA line :
    Bind(Strip(line), LAMBDA stripped :
        IF StartsWith(stripped, <<"A",":">>)
        THEN Bind(Split(stripped), LAMBDA parts :
             Bind(RefParts(parts, Len(parts), line, converted_line_index),
                  LAMBDA st :
             Bind(Missing(RefRequired, st.regs), LAMBDA missing :
                 IF st.exited THEN st
                 ELSE IF missing # <<>>
                 THEN Exited(<<[msg |-> "ref_missing",
                                lineno |-> converted_line_index,
                                missing |-> missing]>>)
                 ELSE st)))
        ELSE Exited(<<>>)))

(***************************************************************************)
(* main                                                                    *)
(***************************************************************************)

USER_LINE_OFFSET == 0

REF_LINE_OFFSET == 7

\* A comparison list that holds PC too.
CoreRegs_WithPC ==
    << <<"A">>, <<"F">>, <<"B">>, <<"C">>, <<"D">>, <<"E">>, <<"H">>, <<"L">>,
       <<"P","C">> >>

CoreRegs ==
    << <<"A">>, <<"F">>, <<"B">>, <<"C">>, <<"D">>, <<"E">>, <<"H">>, <<"L">> >>

Digits == <<"0","1","2","3","4","5","6","7","8","9">>

IsDigit(c) == \E i \in 1..Len(Digits) : Digits[i] = c

DigitValue(c) == (CHOOSE i \in 1..Len(Digits) : Digits[i] = c) - 1

RECURSIVE DecimalValue(_)
DecimalValue(s) ==
    IF s = <<>> THEN 0
    ELSE 10 * DecimalValue(SubSeq(s, 1, Len(s) - 1)) + DigitValue(s[Len(s)])

\* int(s) of a command-line argument: an optional sign and decimal digits.
\* ok = FALSE is the ValueError int raises for anything else.
IntOf(s) ==
    LET signed == s # <<>> /\ s[1] \in {"+", "-"}
        digits == IF signed THEN Tail(s) ELSE s
    IN  IF digits # <<>> /\ \A i \in 1..Len(digits) : IsDigit(digits[i])
        THEN [ok |-> TRUE,
              value |-> IF signed /\ s[1] = "-" THEN 0 - DecimalValue(digits)
                        ELSE DecimalValue(digits)]
        ELSE [ok |-> FALSE, value |-> 0]

\* A comparison that keeps the last differing register, not the first.
FirstMismatch_Last(user_regs, ref_regs) ==
    LET differs(i) == Upper(user_regs[CoreRegs[i]]) # Upper(ref_regs[CoreRegs[i]])
    IN  IF \E i \in 1..Len(CoreRegs) : differs(i)
        THEN CHOOSE i \in 1..Len(CoreRegs) :
                 differs(i) /\ \A j \in (i + 1)..Len(CoreRegs) : ~differs(j)
        ELSE 0

\* The for loop over the 8 compared registers: the position in CoreRegs of
\* the first register whose upper-cased values differ, 0 when none does.
FirstMismatch(user_regs, ref_regs) ==
    LET differs(i) == Upper(user_regs[CoreRegs[i]]) # Upper(ref_regs[CoreRegs[i]])
    IN  IF \E i \in 1..Len(CoreRegs) : differs(i)
        THEN CHOOSE i \in 1..Len(CoreRegs) :
                 differs(i) /\ \A j \in 1..(i - 1) : ~differs(j)
        ELSE 0

\* The four print calls of the mismatch branch.
MismatchReport(reg, user, ref, user_index, ref_index) ==
    [msg |-> "mismatch", reg |-> reg,
     user_index |-> user_index, ref_index |-> ref_index,
     user_lineno |-> user.lineno, user_line |-> user.line,
     ref_lineno |-> ref.lineno, ref_line |-> ref.line,
     u_val |-> Upper(user.regs[reg]), r_val |-> Upper(ref.regs[reg])]

\* The process ends, by sys.exit or by an uncaught exception: what it
\* printed, its exit status, and the exception the interpreter reports.
Terminate(result) ==
    /\ status' = "TERMINATED"
    /\ exit_code' = <<result.code>>
    /\ stdout' = stdout \o result.out
    /\ stderr' = IF result.raised = "" THEN stderr ELSE Append(stderr, result.raised)
    /\ pc' = "done"

\* int(sys.argv[3]) and int(sys.argv[4]) when more than 3 arguments are
\* given: the exception raised, "" when none is.
StartLinesError(sys_argv) ==
    IF Len(sys_argv) <= 3 THEN ""
    ELSE IF ~IntOf(sys_argv[4]).ok THEN "ValueError"
    ELSE IF Len(sys_argv) < 5 THEN "IndexError"
    ELSE IF ~IntOf(sys_argv[5]).ok THEN "ValueError"
    ELSE ""

\* The while loop is entered: enough arguments, and start lines that parse.
EntersLoop(sys_argv) == Len(sys_argv) >= 3 /\ StartLinesError(sys_argv) = ""

\* main up to the while loop: the usage check and the start lines.
MainStart ==
    /\ pc = "start"
    /\ UNCHANGED <<argv, userFile, refFile, iterations, ret>>
    /\ IF Len(argv) < 3
       THEN /\ Terminate(Exited(<<[msg |-> "usage"]>>))
            /\ UNCHANGED <<current_user_line_index, current_ref_line_index,
                           user_start, ref_start>>
       ELSE IF StartLinesError(argv) # ""
       THEN /\ Terminate(Raised(StartLinesError(argv)))
            /\ UNCHANGED <<current_user_line_index, current_ref_line_index,
                           user_start, ref_start>>
       ELSE LET custom_lines == Len(argv) > 3
                user_line == IF custom_lines THEN IntOf(argv[4]).value
                             ELSE 1 + USER_LINE_OFFSET
                reference_line == IF custom_lines THEN IntOf(argv[5]).value
                                  ELSE 1 + REF_LINE_OFFSET
            IN  /\ current_user_line_index' = user_line
                /\ current_ref_line_index' = reference_line
                /\ user_start' = user_line
                /\ ref_start' = reference_line
                /\ pc' = "loop"
                /\ UNCHANGED <<status, exit_code, stdout, stderr>>

\* An advance that moves the reference cursor two lines.
AdvanceCursors_Skip ==
    /\ current_user_line_index' = current_user_line_index + 1
    /\ current_ref_line_index' = current_ref_line_index + 2
    /\ iterations' = iterations + 1

\* The end of an iteration whose registers all match.
AdvanceCursors ==
    /\ current_user_line_index' = current_user_line_index + 1
    /\ current_ref_line_index' = current_ref_line_index + 1
    /\ iterations' = iterations + 1

\* One iteration of the while loop: both parser calls, the comparison, and
\* the advance of both cursors.
LoopIteration ==
    /\ pc = "loop"
    /\ UNCHANGED <<argv, userFile, refFile, user_start, ref_start, ret>>
    /\ \E user \in {parse_user_line(userFile, current_user_line_index)} :
       IF user.exited
       THEN /\ Terminate(user)
            /\ UNCHANGED <<current_user_line_index, current_ref_line_index,
                           iterations>>
       ELSE \E ref \in {parse_ref_line(refFile, current_ref_line_index)} :
            IF ref.exited
            THEN /\ Terminate(ref)
                 /\ UNCHANGED <<current_user_line_index, current_ref_line_index,
                                iterations>>
            ELSE \E mismatch \in {FirstMismatch(user.regs, ref.regs)} :
                 IF mismatch # 0
                 THEN /\ \E report \in {MismatchReport(
                                            CoreRegs[mismatch], user, ref,
                                            current_user_line_index,
                                            current_ref_line_index)} :
                             Terminate(Exited(<<report>>))
                      /\ UNCHANGED <<current_user_line_index,
                                     current_ref_line_index, iterations>>
                 ELSE /\ AdvanceCursors
                      /\ UNCHANGED <<status, exit_code, stdout, stderr, pc>>

(***************************************************************************)
(* The inputs of a run: the command line and the two files.                *)
(***************************************************************************)

\* The longest user log, and the longest reference log after its header.
MaxLines == 2

\* A complete user line, keys in the order of the required list.
UserLineA ==
    <<"A",":","0","1"," ","F",":","B","0"," ","B",":","0","0"," ","C",":",
      "1","3"," ","D",":","0","0"," ","E",":","D","8"," ","H",":","0","1",
      " ","L",":","4","D"," ","P","C",":","0","1","0","0"," ","P","P","U",
      ":","0"," ","T","O","T","A","L","_","C","Y","_","D","O","T","S",":",
      "0"," ","S","C","A","N","L","I","N","E",":","0","\n">>

\* A complete user line: another order, lower-case hex, runs of whitespace.
UserLineB ==
    <<" "," ","L",":","4","d"," ","H",":","0","1","\t","E",":","d","8"," ",
      "D",":","0","0"," "," ","C",":","1","4"," ","B",":","0","0"," ","F",
      ":","a","0"," ","A",":","0","1"," ","S","C","A","N","L","I","N","E",
      ":","1"," ","T","O","T","A","L","_","C","Y","_","D","O","T","S",":",
      "8"," ","P","P","U",":","1"," ","P","C",":","0","1","0","1"," ","\n">>

\* A user line without PC and SCANLINE.
UserLineShort ==
    <<"A",":","0","1"," ","F",":","B","0"," ","B",":","0","0"," ","C",":",
      "1","3"," ","D",":","0","0"," ","E",":","D","8"," ","H",":","0","1",
      " ","L",":","4","D"," ","P","P","U",":","0"," ","T","O","T","A","L",
      "_","C","Y","_","D","O","T","S",":","0","\n">>

\* Agrees with UserLineA on the 8 core registers.
RefLineA ==
    <<"A",":","0","1"," ","F",":","Z","-","H","C"," ","B","C",":","0","0",
      "1","3"," ","D","E",":","0","0","D","8"," ","H","L",":","0","1","4",
      "D"," ","S","P",":","F","F","F","E"," ","P","C",":","0","1","0","0",
      " ","(","c","y",":"," ","0",")"," ","p","p","u",":","+","0","\n">>

\* Agrees with UserLineB on the 8 core registers; another PC, no ppu token.
RefLineB ==
    <<"A",":","0","1"," ","F",":","Z","-","H","-"," ","B","C",":","0","0",
      "1","4"," ","D","E",":","0","0","d","8"," ","H","L",":","0","1","4",
      "D"," ","S","P",":","F","F","F","E"," ","P","C",":","0","2","0","0",
      " ","(","c","y",":"," ","1","2",")","\n">>

\* RefLineB with another L.
RefLineL ==
    <<"A",":","0","1"," ","F",":","Z","-","H","-"," ","B","C",":","0","0",
      "1","4"," ","D","E",":","0","0","D","8"," ","H","L",":","0","1","4",
      "E"," ","S","P",":","F","F","F","E"," ","P","C",":","0","1","0","1",
      " ","(","c","y",":"," ","8",")"," ","p","p","u",":","+","1","\n">>

\* A reference line whose BC token is malformed.
RefLineBadBC ==
    <<"A",":","0","1"," ","F",":","Z","-","H","C"," ","B","C",":","0","1",
      "3"," ","D","E",":","0","0","D","8"," ","H","L",":","0","1","4","D",
      " ","S","P",":","F","F","F","E"," ","P","C",":","0","1","0","0"," ",
      "(","c","y",":"," ","0",")"," ","p","p","u",":","+","0","\n">>

\* A line of the reference log's header.
RefHeaderLine ==
    <<"h","e","a","d","e","r","\n">>

UserLines == {UserLineA, UserLineB, UserLineShort}

RefLines == {RefLineA, RefLineB, RefLineL, RefLineBadBC}

\* The REF_LINE_OFFSET lines the default reference start line skips.
RefHeader == [i \in 1..REF_LINE_OFFSET |-> RefHeaderLine]

\* The sequences over S of length at most n.
SeqsUpTo(S, n) == UNION {[1..k -> S] : k \in 0..n}

\* The start-line arguments tried: lines of the user log, a line of the
\* reference log past its header, a line past the end, and a non-number.
ArgStrings == {<<"1">>, <<"2">>, <<"9">>, <<"x">>}

CommandLines ==
    {<<"check_logs.py">>, <<"check_logs.py", "user.log">>}
    \cup {<<"check_logs.py", "user.log", "ref.log">> \o lines :
              lines \in SeqsUpTo(ArgStrings, 2)}

Init ==
    /\ argv \in CommandLines
    /\ userFile \in IF Len(argv) < 3 THEN {<<>>} ELSE SeqsUpTo(UserLines, MaxLines)
    /\ refFile \in IF Len(argv) < 3 THEN {<<>>}
                   ELSE {RefHeader \o body : body \in SeqsUpTo(RefLines, MaxLines)}
    /\ pc = "start"
    /\ current_user_line_index = 0
    /\ current_ref_line_index = 0
    /\ user_start = 0
    /\ ref_start = 0
    /\ iterations = 0
    /\ status = "RUNNING"
    /\ exit_code = <<>>
    /\ stdout = <<>>
    /\ stderr = <<>>
    /\ ret = <<>>

Next == MainStart \/ LoopIteration

Spec == Init /\ [][Next]_vars

\* The interpreter runs the program's next statement until the process ends.
FairSpec == Spec /\ WF_vars(Next)

(***************************************************************************)
(* The parsers on their own: one call of parse_user_line, or of            *)
(* parse_ref_line, on line 1 of a one-line file.                           *)
(***************************************************************************)

\* The call, and the end of the process when the parser does not return.
ParserCall(result) ==
    /\ ret' = result
    /\ IF result.exited
       THEN Terminate(result)
       ELSE /\ pc' = "returned"
            /\ UNCHANGED <<status, exit_code, stdout, stderr>>
    /\ UNCHANGED <<argv, userFile, refFile, current_user_line_index,
                   current_ref_line_index, user_start, ref_start, iterations>>

CallParseUserLine ==
    /\ pc = "call_user"
    /\ ParserCall(parse_user_line(userFile, current_user_line_index))

CallParseRefLine ==
    /\ pc = "call_ref"
    /\ ParserCall(parse_ref_line(refFile, current_ref_line_index))

RECURSIVE JoinWith(_, _)
JoinWith(tokens, sep) ==
    IF tokens = <<>> THEN <<>>
    ELSE IF Len(tokens) = 1 THEN tokens[1]
    ELSE tokens[1] \o sep \o JoinWith(Tail(tokens), sep)

Reverse(seq) == [i \in 1..Len(seq) |-> seq[Len(seq) + 1 - i]]

\* The whitespace tried between two tokens.
Separators == {<<" ">>, <<" ", "\t", " ">>}

\* A value for each required key of the user format, in the order of
\* UserRequired.
UserValues ==
    << <<"0","1">>, <<"B","0">>, <<"0","0">>, <<"1","3">>, <<"0","0">>,
       <<"D","8">>, <<"0","1">>, <<"4","D">>, <<"0","1","0","0">>, <<"0">>,
       <<"1","2">>, <<"0">> >>

UserToken(i) == UserRequired[i] \o <<":">> \o UserValues[i]

\* One more token, or none (<<>>): a token that holds "A:" without starting
\* with it, a second A token with another value, a second L token with the
\* same value.
ExtraUserTokens ==
    {<<>>, <<"X","A",":","0","1">>, <<"A",":","F","F">>, <<"L",":","4","D">>}

\* The user line that holds the extra token and the tokens of the keys in
\* present (positions of UserRequired), in that order or reversed.
UserLineOf(present, extra, reversed, sep) ==
    LET chosen == SelectSeq([i \in 1..Len(UserRequired) |-> i],
                            LAMBDA i : i \in present)
        tokens == (IF extra = <<>> THEN <<>> ELSE <<extra>>)
                  \o [k \in 1..Len(chosen) |-> UserToken(chosen[k])]
    IN  JoinWith(IF reversed THEN Reverse(tokens) ELSE tokens, sep) \o <<"\n">>

ParserInit ==
    /\ argv = <<"check_logs.py", "user.log", "ref.log">>
    /\ current_user_line_index = 1
    /\ current_ref_line_index = 1
    /\ user_start = 1
    /\ ref_start = 1
    /\ iterations = 0
    /\ status = "RUNNING"
    /\ exit_code = <<>>
    /\ stdout = <<>>
    /\ stderr = <<>>
    /\ ret = <<>>

InitUserLine ==
    /\ userFile \in {<<UserLineOf(present, extra, reversed, sep)>> :
                        present \in SUBSET (1..Len(UserRequired)),
                        extra \in ExtraUserTokens,
                        reversed \in BOOLEAN,
                        sep \in Separators}
    /\ refFile = <<>>
    /\ pc = "call_user"
    /\ ParserInit

SpecUserLine == InitUserLine /\ [][CallParseUserLine]_vars

\* The longest flag string tried in an F token.
MaxFLen == 5

\* The flag letters, by position (Z again past the fourth).
FlagLetters == <<"Z", "N", "H", "C">>

\* The characters tried at position i of a flag string: clear, set (the
\* position's letter), and a closing parenthesis.
FlagCharsAt(i) == {"-", IF i <= Len(FlagLetters) THEN FlagLetters[i] ELSE "Z", ")"}

FlagStrings ==
    UNION {{s \in [1..n -> {"-", "Z", "N", "H", "C", ")"}] :
               \A i \in 1..n : s[i] \in FlagCharsAt(i)} : n \in 0..MaxFLen}

RefTokA == <<"A",":","0","1">>
RefTokBC == <<"B","C",":","0","0","1","3">>
RefTokBadBC == <<"B","C",":","0","1","3">>
RefTokDE == <<"D","E",":","0","0","D","8">>
RefTokHL == <<"H","L",":","0","1","4","D">>
RefTokBadHL == <<"H","L",":","0","1","4","D","0">>
RefTokPC == <<"P","C",":","0","1","0","0">>
RefTokEmptyPC == <<"P","C",":">>
RefTokCy == <<"(","c","y",":">>
RefTokDots == <<"1","2",")">>
RefTokPpu == <<"p","p","u",":","+","0">>
RefTokClearF == <<"F",":","-","-","-","-">>
RefTokSetF == <<"F",":","Z","N","H","C">>
RefTokText == <<"h","e","l","l","o">>

\* The tokens before and after the F token under test.
RefLayouts ==
    { <<<<>>, <<RefTokBC, RefTokDE, RefTokHL, RefTokPC, RefTokCy, RefTokDots, RefTokPpu>>>>,
      <<<<RefTokBC, RefTokDE>>, <<RefTokHL, RefTokPC>>>>,
      <<<<RefTokBadBC>>, <<RefTokDE, RefTokHL, RefTokPC>>>>,
      <<<<RefTokEmptyPC>>, <<RefTokBC, RefTokDE, RefTokHL>>>>,
      <<<<>>, <<RefTokBC, RefTokDE, RefTokBadHL, RefTokPC>>>>,
      <<<<>>, <<RefTokBC, RefTokDE, RefTokHL, RefTokPC, RefTokClearF>>>>,
      <<<<RefTokSetF>>, <<RefTokBC, RefTokDE, RefTokHL, RefTokPC>>>>,
      <<<<>>, <<RefTokBC, RefTokDE, RefTokHL>>>> }

RefLineOf(lead, f_str, layout, sep) ==
    JoinWith(<<lead>> \o layout[1] \o <<<<"F", ":">> \o f_str>> \o layout[2], sep)
    \o <<"\n">>

InitRefLine ==
    /\ refFile \in {<<RefLineOf(lead, f_str, layout, <<" ">>)>> :
                       lead \in {RefTokA, RefTokText},
                       f_str \in FlagStrings,
                       layout \in RefLayouts}
    /\ userFile = <<>>
    /\ pc = "call_ref"
    /\ ParserInit

SpecRefLine == InitRefLine /\ [][CallParseRefLine]_vars

(***************************************************************************)
(* Properties of main.                                                     *)
(***************************************************************************)

\* The 8 registers main is to compare, in the order it is to compare them.
EightRegs ==
    << <<"A">>, <<"F">>, <<"B">>, <<"C">>, <<"D">>, <<"E">>, <<"H">>, <<"L">> >>

\* The 12 keys a user line must hold.
TwelveKeys ==
    { <<"A">>, <<"F">>, <<"B">>, <<"C">>, <<"D">>, <<"E">>, <<"H">>, <<"L">>,
      <<"P","C">>, <<"P","P","U">>,
      <<"T","O","T","A","L","_","C","Y","_","D","O","T","S">>,
      <<"S","C","A","N","L","I","N","E">> }

\* The process is in the while loop, or ended in it.
LoopEntered == pc # "start" /\ EntersLoop(argv)

\* The snapshots of the lines under the cursors.
UserNow == parse_user_line(userFile, current_user_line_index)

RefNow == parse_ref_line(refFile, current_ref_line_index)

\* Both parser calls u and r returned a snapshot.
BothParse(u, r) == ~u.exited /\ ~r.exited

\* The snapshots of u and r differ on the i-th of the 8 registers.
DiffersOn(u, r, i) ==
    Upper(u.regs[EightRegs[i]]) # Upper(r.regs[EightRegs[i]])

SnapshotsDiffer(u, r) == \E i \in 1..Len(EightRegs) : DiffersOn(u, r, i)

FirstDiffering(u, r) ==
    CHOOSE i \in 1..Len(EightRegs) :
        DiffersOn(u, r, i) /\ \A j \in 1..(i - 1) : ~DiffersOn(u, r, j)

\* The k-th pair of lines from the start lines on (k = 0 is the first) parses
\* and agrees on the 8 registers.
PairGood(k) ==
    LET u == parse_user_line(userFile, user_start + k)
        r == parse_ref_line(refFile, ref_start + k)
    IN  /\ ~u.exited
        /\ ~r.exited
        /\ \A i \in 1..Len(EightRegs) :
               Upper(u.regs[EightRegs[i]]) = Upper(r.regs[EightRegs[i]])

\* C1: an iteration that finds both lines parsed and the snapshots different
\* on one of the 8 registers ends the process in that step with a non-zero
\* exit status, leaves both cursors where they are, and prints one mismatch
\* report that names the first differing register (in the order A, F, B, C,
\* D, E, H, L), its two differing values and both cursors.
C1_MismatchTerminates ==
    [][pc = "loop" =>
         LET u == UserNow
             r == RefNow
         IN  (BothParse(u, r) /\ SnapshotsDiffer(u, r)) =>
                 /\ status' = "TERMINATED"
                 /\ exit_code' # <<>> /\ exit_code'[1] # 0
                 /\ current_user_line_index' = current_user_line_index
                 /\ current_ref_line_index' = current_ref_line_index
                 /\ Len(stdout') = Len(stdout) + 1
                 /\ LET report == stdout'[Len(stdout')]
                        reg == EightRegs[FirstDiffering(u, r)]
                    IN  /\ report.msg = "mismatch"
                        /\ report.reg = reg
                        /\ report.u_val = Upper(u.regs[reg])
                        /\ report.r_val = Upper(r.regs[reg])
                        /\ report.u_val # report.r_val
                        /\ report.user_index = current_user_line_index
                        /\ report.ref_index = current_ref_line_index]_vars

\* A mismatch reported after a matching pair, on a register other than A,
\* with a later register differing too.
C1_Witness ==
    /\ status = "TERMINATED"
    /\ iterations >= 1
    /\ stdout # <<>>
    /\ stdout[1].msg = "mismatch"
    /\ stdout[1].reg = <<"F">>
    /\ Upper(UserNow.regs[<<"L">>]) # Upper(RefNow.regs[<<"L">>])

\* C2: in the loop both cursors are their start lines plus the number of
\* completed iterations (so they move together, by one, and their
\* difference never changes); every pair passed parsed and agreed on the 8
\* registers; nothing is printed while the loop runs; and the process ends
\* only at a pair that fails to parse or disagrees.  Hence N good pairs from
\* the start lines on are passed in exactly N advances, and the first
\* report can only come from pair N + 1.
C2_LockStep ==
    LoopEntered =>
        /\ current_user_line_index = user_start + iterations
        /\ current_ref_line_index = ref_start + iterations
        /\ \A k \in 0..(iterations - 1) : PairGood(k)
        /\ status = "RUNNING" => stdout = <<>> /\ stderr = <<>>
        /\ status = "TERMINATED" => ~PairGood(iterations)

\* Two matching pairs passed from the default start lines, then the end.
C2_Witness ==
    /\ status = "TERMINATED"
    /\ iterations = 2
    /\ current_user_line_index = 3
    /\ current_ref_line_index = 10

\* C3: the exit status is never 0; a process that ended has a non-zero exit
\* status; and while every pair read so far parsed and matched, the process
\* is running.
C3_NeverExitsZero ==
    /\ status = "TERMINATED" <=> exit_code # <<>>
    /\ exit_code # <<>> => exit_code[1] # 0
    /\ (LoopEntered /\ \A k \in 0..iterations : PairGood(k)) => status = "RUNNING"

\* The process ended without a word, after a matching pair.
C3_Witness ==
    /\ status = "TERMINATED"
    /\ exit_code = <<1>>
    /\ iterations >= 1
    /\ stdout = <<>>
    /\ stderr = <<>>

Max0(n) == IF n < 0 THEN 0 ELSE n

\* C4, as stated: the loop completes at most (length of the user file -
\* user start line + 1) iterations.
C4_IterationBound ==
    LoopEntered => iterations <= Len(userFile) - user_start + 1

\* C4, amended: the process ends; with the user cursor past the end of the
\* user file the iteration reads an empty line, reports all 12 keys missing
\* and exits with status 1; and the loop completes at most
\* max(0, length of the user file - user start line + 1) iterations.
C4_Terminates ==
    /\ <>(status = "TERMINATED")
    /\ [](LoopEntered => iterations <= Max0(Len(userFile) - user_start + 1))
    /\ [][(pc = "loop" /\ current_user_line_index > Len(userFile)) =>
            /\ status' = "TERMINATED"
            /\ exit_code' = <<1>>
            /\ stderr' = stderr
            /\ Len(stdout') = 1
            /\ stdout'[1].msg = "user_missing"
            /\ stdout'[1].lineno = current_user_line_index
            /\ Len(stdout'[1].missing) = Cardinality(TwelveKeys)
            /\ {stdout'[1].missing[i] : i \in 1..Len(stdout'[1].missing)}
                   = TwelveKeys]_vars

\* The user file ran out after every one of its lines matched.
C4_Witness ==
    /\ status = "TERMINATED"
    /\ Len(userFile) >= 1
    /\ iterations = Len(userFile)
    /\ current_user_line_index = Len(userFile) + 1
    /\ stdout # <<>>
    /\ stdout[1].msg = "user_missing"

\* C5: a process ended by sys.exit has printed a diagnostic.
C5_AlwaysDiagnosed ==
    (status = "TERMINATED" /\ stderr = <<>>) => stdout # <<>>

(***************************************************************************)
(* Properties of parse_user_line.                                          *)
(***************************************************************************)

\* The line of the user file the parser was called on.
UserLineRead == userFile[1]

\* The line holds a token that starts with key and a colon: the text
\* key: stands at the start of the line or right after a whitespace character.
HasToken(line, key) ==
    \E p \in 1..Len(line) :
        /\ p = 1 \/ line[p - 1] \in Whitespace
        /\ line[p] \notin Whitespace
        /\ p + Len(key) <= Len(line)
        /\ SubSeq(line, p, p + Len(key)) = key \o <<":">>

AbsentKeys(line) == {key \in TwelveKeys : ~HasToken(line, key)}

\* C6: parse_user_line ends the process, with a non-zero exit status, exactly
\* when one of the 12 required keys has no token starting with "key:" on the
\* line; the one diagnostic it prints then lists exactly the keys without
\* such a token, each once, with the line number; otherwise it returns and
\* prints nothing.
C6_MissingExactly ==
    pc # "call_user" =>
        /\ status = "TERMINATED" <=> AbsentKeys(UserLineRead) # {}
        /\ status = "TERMINATED" =>
               /\ exit_code # <<>> /\ exit_code[1] # 0
               /\ stderr = <<>>
               /\ Len(stdout) = 1
               /\ stdout[1].msg = "user_missing"
               /\ stdout[1].lineno = current_user_line_index
               /\ {stdout[1].missing[i] : i \in 1..Len(stdout[1].missing)}
                      = AbsentKeys(UserLineRead)
               /\ Len(stdout[1].missing) = Cardinality(AbsentKeys(UserLineRead))
        /\ status # "TERMINATED" =>
               /\ pc = "returned"
               /\ ~ret.exited
               /\ stdout = <<>>
               /\ exit_code = <<>>

\* A line that holds XA:01 and no token starting with A: was reported to
\* miss A and one more key.
C6_Witness ==
    /\ status = "TERMINATED"
    /\ Len(stdout) = 1
    /\ Len(stdout[1].missing) = 2
    /\ stdout[1].missing[1] = <<"A">>
    /\ \E p \in 1..(Len(UserLineRead) - 2) :
           SubSeq(UserLineRead, p, p + 2) = <<"X", "A", ":">>

\* The tokens of a line: its maximal runs of characters that are not
\* whitespace, from left to right.
TokenStarts(line) ==
    SelectSeq(Positions(line),
              LAMBDA p : line[p] \notin Whitespace
                         /\ (p = 1 \/ line[p - 1] \in Whitespace))

TokenEnds(line) ==
    SelectSeq(Positions(line),
              LAMBDA p : line[p] \notin Whitespace
                         /\ (p = Len(line) \/ line[p + 1] \in Whitespace))

Tokens(line) ==
    [k \in 1..Len(TokenStarts(line)) |->
        SubSeq(line, TokenStarts(line)[k], TokenEnds(line)[k])]

\* The tokens with those at positions i and j exchanged.
Swapped(tokens, i, j) ==
    [k \in 1..Len(tokens) |->
        IF k = i THEN tokens[j] ELSE IF k = j THEN tokens[i] ELSE tokens[k]]

\* The tokens rotated left by r positions.
Rotated(tokens, r) ==
    [k \in 1..Len(tokens) |-> tokens[((k - 1 + r) % Len(tokens)) + 1]]

\* The orders tried for a token list: every exchange of two tokens, every
\* rotation, and the reverse.
Reorderings(tokens) ==
    {Swapped(tokens, i, j) : i, j \in 1..Len(tokens)}
        \cup {Rotated(tokens, r) : r \in 0..(Len(tokens) - 1)}
        \cup {Reverse(tokens)}

\* The whitespace tried around and between the tokens of a reordered line.
Spacings ==
    { [lead |-> <<>>, sep |-> <<" ">>, trail |-> <<"\n">>],
      [lead |-> <<" ", "\t">>, sep |-> <<" ", " ", "\t">>, trail |-> <<" ", "\r", "\n">>] }

ReorderedLines(line) ==
    {sp.lead \o JoinWith(tokens, sp.sep) \o sp.trail :
         tokens \in Reorderings(Tokens(line)), sp \in Spacings}

\* Two tokens of the line start with the same required key and a colon, and
\* differ.
ConflictingTokens(line) ==
    \E key \in TwelveKeys :
        \E i, j \in 1..Len(Tokens(line)) :
            /\ StartsWith(Tokens(line)[i], key \o <<":">>)
            /\ StartsWith(Tokens(line)[j], key \o <<":">>)
            /\ Tokens(line)[i] # Tokens(line)[j]

\* Every reordering of the line read parses to the snapshot returned.
SameSnapshotInAnyOrder ==
    /\ pc = "returned"
    /\ ~ret.exited
    /\ \A key \in TwelveKeys : key \in DOMAIN ret.regs
    /\ \A other \in ReorderedLines(UserLineRead) :
           LET again == parse_user_line(<<other>>, 1)
           IN  /\ ~again.exited
               /\ again.regs = ret.regs

\* C9, as stated: every line that holds all 12 required tokens parses to the
\* same snapshot in every order of its tokens.
C9_AnyOrder ==
    (pc # "call_user" /\ AbsentKeys(UserLineRead) = {}) => SameSnapshotInAnyOrder

\* C9, amended: a line that holds all 12 required tokens, and no two
\* different tokens of the same key, parses to the same snapshot in every
\* order of its tokens and with any whitespace between them.
C9_OrderIndependent ==
    (pc # "call_user" /\ AbsentKeys(UserLineRead) = {}
        /\ ~ConflictingTokens(UserLineRead)) => SameSnapshotInAnyOrder

\* A line of 13 tokens was parsed: the 12 required ones in reverse order,
\* then a token XA:01 that no key claims.
C9_Witness ==
    /\ pc = "returned"
    /\ Len(Tokens(UserLineRead)) = 13
    /\ StartsWith(Tokens(UserLineRead)[1], <<"S","C","A","N","L","I","N","E",":">>)
    /\ StartsWith(Tokens(UserLineRead)[13], <<"X","A",":">>)
    /\ ret.regs[<<"P","C">>] = <<"0","1","0","0">>

(***************************************************************************)
(* Properties of parse_ref_line.                                           *)
(***************************************************************************)

\* The reference line the parser was called on, and its tokens.
RefLineRead == refFile[1]

RefTokens == Tokens(RefLineRead)

\* The line begins with A: once trimmed.
BeginsWithA ==
    RefTokens # <<>> /\ StartsWith(RefTokens[1], <<"A", ":">>)

\* The token is F:<s>, and <s> its flag string.
IsFToken(token) == StartsWith(token, <<"F", ":">>)

FlagStringOf(token) == SubSeq(token, 3, Len(token))

\* The token is XY:<v> with a value that is not 4 characters long.
BadPair(token, xy) == StartsWith(token, xy) /\ Len(token) # Len(xy) + 4

\* The token ends the parse when the parser comes to it: a malformed F, BC,
\* DE or HL token, or a PC: token without a value; none of these when the
\* token ends in a closing parenthesis.
EndsParse(token) ==
    /\ ~EndsWith(token, <<")">>)
    /\ \/ IsFToken(token) /\ Len(FlagStringOf(token)) # 4
       \/ BadPair(token, <<"B", "C", ":">>)
       \/ BadPair(token, <<"D", "E", ":">>)
       \/ BadPair(token, <<"H", "L", ":">>)
       \/ token = <<"P", "C", ":">>

\* The parser comes to the k-th token.
ComesTo(k) == \A j \in 1..(k - 1) : ~EndsParse(RefTokens[j])

\* The positions of the F tokens whose flag string is not 4 characters long.
WrongLengthF ==
    {k \in 1..Len(RefTokens) :
        IsFToken(RefTokens[k]) /\ Len(FlagStringOf(RefTokens[k])) # 4}

\* The diagnostic of a malformed F value <s> on line 1 is all that was
\* printed, and the process ended with a non-zero exit status.
EndedOnBadF(s) ==
    /\ status = "TERMINATED"
    /\ exit_code # <<>> /\ exit_code[1] # 0
    /\ stdout = <<[msg |-> "ref_bad_F", lineno |-> current_ref_line_index,
                   value |-> s]>>

\* The state of the parser after the k-th token of the line read.
AfterToken(k) ==
    RefParts(RefTokens, k, RefLineRead, current_ref_line_index)

\* C7, as stated: whenever a line that begins with A: holds a token F:<s>
\* with <s> not 4 characters long, the process ends on the diagnostic of
\* a malformed F value that names such an <s>, and no snapshot is returned.
C7_AnyWrongLength ==
    (pc # "call_ref" /\ BeginsWithA /\ WrongLengthF # {}) =>
        /\ \E k \in WrongLengthF : EndedOnBadF(FlagStringOf(RefTokens[k]))
        /\ ret.exited

\* C7, amended: whenever a line that begins with A: holds a token F:<s> with
\* <s> not 4 characters long and not ending in ")", the process ends with a
\* non-zero exit status and returns no snapshot; no flag byte is stored for
\* that token; and when no earlier token of the line ends the parse, the
\* one diagnostic printed is that of a malformed F value, naming <s> and
\* the line number.
C7_WrongLengthIsFatal ==
    (pc # "call_ref" /\ BeginsWithA) =>
        \A k \in WrongLengthF :
            ~EndsWith(RefTokens[k], <<")">>) =>
                /\ status = "TERMINATED"
                /\ pc = "done"
                /\ exit_code # <<>> /\ exit_code[1] # 0
                /\ ret.exited
                /\ ret.regs = EmptyDict
                /\ AfterToken(k).exited
                /\ <<"F">> \notin DOMAIN AfterToken(k).regs
                /\ ComesTo(k) => EndedOnBadF(FlagStringOf(RefTokens[k]))

\* A 5-character flag string ended the parse after a well-formed F token
\* had been decoded.
C7_Witness ==
    /\ status = "TERMINATED"
    /\ BeginsWithA
    /\ Len(RefTokens) >= 3
    /\ RefTokens[2] = RefTokSetF
    /\ IsFToken(RefTokens[3])
    /\ Len(stdout) = 1
    /\ stdout[1].msg = "ref_bad_F"
    /\ Len(stdout[1].value) = 5

\* The two hex digits of the flag byte of a 4-character flag string: the
\* high digit counts 8 for position 1, 4 for position 2, 2 for position 3
\* and 1 for position 4, each unless the position holds a dash; the low
\* digit is 0.
ExpectedF(s) ==
    <<HexDigits[(IF s[1] # "-" THEN 8 ELSE 0) + (IF s[2] # "-" THEN 4 ELSE 0)
                + (IF s[3] # "-" THEN 2 ELSE 0) + (IF s[4] # "-" THEN 1 ELSE 0)
                + 1],
      "0">>

SixteenValues == {<<HexDigits[i], "0">> : i \in 1..16}

\* The positions of the F tokens whose flag string is 4 characters long.
FourCharF ==
    {k \in 1..Len(RefTokens) :
        IsFToken(RefTokens[k]) /\ Len(FlagStringOf(RefTokens[k])) = 4}

\* The parser stored the flag byte of the k-th token when it came to it,
\* and the snapshot returned holds it when no later token is an F token.
StoredF(k) ==
    /\ ComesTo(k) =>
           /\ ~AfterToken(k).exited
           /\ <<"F">> \in DOMAIN AfterToken(k).regs
           /\ AfterToken(k).regs[<<"F">>] = ExpectedF(FlagStringOf(RefTokens[k]))
           /\ AfterToken(k).regs[<<"F">>] \in SixteenValues
    /\ (pc = "returned" /\ \A j \in (k + 1)..Len(RefTokens) : ~IsFToken(RefTokens[j])) =>
           /\ ret.regs[<<"F">>] = ExpectedF(FlagStringOf(RefTokens[k]))
           /\ Len(ret.regs[<<"F">>]) = 2

\* ---- gives 00, Z-H- gives A0 and ZNHC gives F0.
FlagExamples ==
    /\ ExpectedF(<<"-","-","-","-">>) = <<"0","0">>
    /\ ExpectedF(<<"Z","-","H","-">>) = <<"A","0">>
    /\ ExpectedF(<<"Z","N","H","C">>) = <<"F","0">>

\* C8, as stated: the parser stores, for every token F:<s> with a
\* 4-character <s> it comes to, the flag byte of <s> as two upper-case hex
\* digits.
C8_AnyFourChars ==
    (pc # "call_ref" /\ BeginsWithA) =>
        /\ FlagExamples
        /\ \A k \in FourCharF : StoredF(k)

\* C8, amended: the parser stores, for every token F:<s> with a 4-character
\* <s> that does not end in ")" and that it comes to, the flag byte of <s>
\* as two upper-case hex digits: bit 7 set unless <s> starts with a dash,
\* bit 6, 5 and 4 likewise for the next three positions, low nibble 0.
C8_FlagByte ==
    (pc # "call_ref" /\ BeginsWithA) =>
        /\ FlagExamples
        /\ \A k \in FourCharF :
               ~EndsWith(RefTokens[k], <<")">>) => StoredF(k)

\* The line with F:Z-H- was parsed to a snapshot with F = A0.
C8_Witness ==
    /\ pc = "returned"
    /\ BeginsWithA
    /\ RefTokens[2] = <<"F",":","Z","-","H","-">>
    /\ ret.regs[<<"F">>] = <<"A","0">>

\* C10: an iteration that finds both lines parsed and the 8 registers equal
\* advances both cursors by one, prints nothing and leaves the process
\* running, whatever PC, PPU, TOTAL_CY_DOTS and SCANLINE are in the two
\* snapshots, and whether or not the reference snapshot holds them.
OtherKeys ==
    { <<"P","C">>, <<"P","P","U">>,
      <<"T","O","T","A","L","_","C","Y","_","D","O","T","S">>,
      <<"S","C","A","N","L","I","N","E">> }

OthersDiffer(u, r) ==
    \E k \in OtherKeys : k \notin DOMAIN r.regs \/ u.regs[k] # r.regs[k]

C10_OnlyCoreCompared ==
    [][pc = "loop" =>
         LET u == UserNow
             r == RefNow
         IN  (BothParse(u, r) /\ ~SnapshotsDiffer(u, r) /\ OthersDiffer(u, r)) =>
                 /\ current_user_line_index' = current_user_line_index + 1
                 /\ current_ref_line_index' = current_ref_line_index + 1
                 /\ status' = "RUNNING"
                 /\ exit_code' = <<>>
                 /\ stdout' = stdout
                 /\ stderr' = stderr]_vars

\* The first pair was passed although its PC values differ and the reference
\* line has no ppu token.
C10_Witness ==
    /\ LoopEntered
    /\ iterations >= 1
    /\ LET u == parse_user_line(userFile, user_start)
           r == parse_ref_line(refFile, ref_start)
       IN  /\ u.regs[<<"P","C">>] # r.regs[<<"P","C">>]
           /\ <<"P","P","U">> \notin DOMAIN r.regs

=============================================================================
